---- MODULE Spec2Model ----
(***************************************************************************)
(* Model of the Hatanaka compressor of the rinex crate                     *)
(* (rinex/src/hatanaka/compressor.rs): the two-state epoch FSM, the        *)
(* per-satellite kernel registry with forced re-initialisation and the     *)
(* output text it produces.  Text is modelled character by character: a    *)
(* string is a sequence of one-character strings, a content is the         *)
(* sequence of the lines that str::lines() yields.                         *)
(***************************************************************************)
EXTENDS Integers, Sequences, FiniteSets, TLC

(***************************************************************************)
(* Bounds of the model                                                     *)
(***************************************************************************)
\* lines handed to one call of compress
MaxContent == 2
\* lines handed to one compressor instance over all calls
MaxLines == 4
\* lines handed to one instance whose descriptor block does not end
MaxStalled == 258
\* lines handed to one instance that follows one satellite over its epochs
MaxSamples == 6

(***************************************************************************)
(* Program constants                                                       *)
(***************************************************************************)
\* determine_nb_vehicules: minimal length of a first descriptor line
MinDescLen == 33
\* determine_nb_vehicules: the satellite count is content[30..32]
NbFieldStart == 30
NbFieldEnd == 32
\* current_vehicule: sv_size and epoch_size
SvSize == 3
EpochSize == 32
\* satellites per descriptor line
SvPerLine == 12
\* width of an observable slot in a body line
ObsSlot == 17
\* characters cut off per observable, and its data part
ObsField == 16
ObsData == 14
\* early empty line: observables a line can hold
ObsPerLine == 5
\* order the numeric kernels are (re)initialised with
InitOrder == 3
\* NumDiff::MAX_COMPRESSION_ORDER
MAX_COMPRESSION_ORDER == 5
\* the data is scaled by 1000 before compression
Scale == 1000

(***************************************************************************)
(* Text                                                                    *)
(***************************************************************************)
Min2(a, b) == IF a < b THEN a ELSE b

SetMin(S) == CHOOSE x \in S : \A y \in S : x <= y

SetMax(S) == CHOOSE x \in S : \A y \in S : y <= x

DivCeil(a, b) == (a + b - 1) \div b

Rep(c, n) == [i \in 1..n |-> c]

Digits == <<"0","1","2","3","4","5","6","7","8","9">>

IsDigit(c) == \E i \in 1..10 : Digits[i] = c

DigitVal(c) == (CHOOSE i \in 1..10 : Digits[i] = c) - 1

IsWs(c) == c \in {" ", "\t", "\n", "\r"}

\* str::trim, str::trim_end
Trim(s) ==
  LET idx == {i \in 1..Len(s) : ~IsWs(s[i])}
  IN IF idx = {} THEN <<>> ELSE SubSeq(s, SetMin(idx), SetMax(idx))

TrimEnd(s) ==
  LET idx == {i \in 1..Len(s) : ~IsWs(s[i])}
  IN IF idx = {} THEN <<>> ELSE SubSeq(s, 1, SetMax(idx))

\* str::contains
Contains(s, pat) ==
  \E i \in 0..(Len(s) - Len(pat)) : SubSeq(s, i + 1, i + Len(pat)) = pat

\* str::lines: cut at every newline, a final empty piece is dropped, the
\* carriage return before a newline is not part of the line
SplitLines(s) ==
  LET nls == {i \in 1..Len(s) : s[i] = "\n"}
      n == Cardinality(nls)
      Nth(k) == IF k = 0 THEN 0
                ELSE IF k = n + 1 THEN Len(s) + 1
                ELSE CHOOSE x \in nls : Cardinality({y \in nls : y < x}) = k - 1
      Raw(k) == SubSeq(s, Nth(k - 1) + 1, Nth(k) - 1)
      Line(k) == IF k <= n /\ Raw(k) # <<>> /\ Raw(k)[Len(Raw(k))] = "\r"
                 THEN SubSeq(Raw(k), 1, Len(Raw(k)) - 1) ELSE Raw(k)
  IN [k \in 1..(IF s # <<>> /\ s[Len(s)] # "\n" THEN n + 1 ELSE n) |->
        Line(k)]

\* the strings of a sequence, one after the other
RECURSIVE Flatten(_)
Flatten(ss) ==
  IF ss = <<>> THEN <<>>
  ELSE IF Len(ss) = 1 THEN ss[1]
  ELSE Flatten(SubSeq(ss, 1, Len(ss) \div 2))
         \o Flatten(SubSeq(ss, Len(ss) \div 2 + 1, Len(ss)))

\* value of a sequence of digits
RECURSIVE DigitsVal(_)
DigitsVal(s) ==
  IF s = <<>> THEN 0
  ELSE DigitsVal(SubSeq(s, 1, Len(s) - 1)) * 10 + DigitVal(s[Len(s)])

AllDigits(s) == \A i \in 1..Len(s) : IsDigit(s[i])

\* an unsigned integer parsed from decimal digits: an optional plus sign,
\* then one digit at least, the value below limit; -1 stands for Err
Bounded(v, limit) == IF v >= limit THEN -1 ELSE v

ParseDigits(body, limit) ==
  IF body = <<>> \/ ~AllDigits(body) THEN -1
  ELSE Bounded(DigitsVal(body), limit)

ParseUnsigned(s, limit) ==
  ParseDigits(IF s # <<>> /\ s[1] = "+" THEN Tail(s) ELSE s, limit)

\* u16::from_str_radix(s, 10)
ParseU16(s) == ParseUnsigned(s, 65536)

\* u8::from_str, as used for a satellite number
ParseU8(s) == ParseUnsigned(s, 256)

\* Display of an i64
RECURSIVE NatStr(_)
NatStr(n) == IF n < 10 THEN <<Digits[n + 1]>>
             ELSE NatStr(n \div 10) \o <<Digits[(n % 10) + 1]>>

IntStr(n) == IF n < 0 THEN <<"-">> \o NatStr(-n) ELSE NatStr(n)

\* f64::from_str on a trimmed field followed by round(x * 1000) as i64, for
\* the plain decimal notation [sign] digits [. digits]: [ok, val]
NoObs == [ok |-> FALSE, val |-> 0]

\* ip the digits before the point, fp4 the first four after it
Thousandths(neg, ip, fp4) ==
  [ok |-> TRUE,
   val |-> (IF neg THEN -1 ELSE 1)
           * (DigitsVal(ip) * Scale + DigitsVal(SubSeq(fp4, 1, 3))
              + (IF DigitVal(fp4[4]) >= 5 THEN 1 ELSE 0))]

ParseIntFrac(neg, ip, fp) ==
  IF AllDigits(ip) /\ AllDigits(fp) /\ Len(ip) + Len(fp) >= 1
  THEN Thousandths(neg, ip, SubSeq(fp \o <<"0","0","0","0">>, 1, 4))
  ELSE NoObs

ParsePoint(neg, body, dots) ==
  IF dots = {} THEN ParseIntFrac(neg, body, <<>>)
  ELSE IF Cardinality(dots) > 1 THEN NoObs
  ELSE ParseIntFrac(neg, SubSeq(body, 1, SetMin(dots) - 1),
                    SubSeq(body, SetMin(dots) + 1, Len(body)))

ParseSigned(neg, body) ==
  ParsePoint(neg, body, {i \in 1..Len(body) : body[i] = "."})

ParseObs(s) ==
  ParseSigned(s # <<>> /\ s[1] = "-",
              IF s # <<>> /\ s[1] \in {"+", "-"} THEN Tail(s) ELSE s)

(***************************************************************************)
(* Kernels: hatanaka/numdiff.rs and hatanaka/textdiff.rs                   *)
(***************************************************************************)
\* NumDiff::new(order): fails for an order outside 1..=MAX
NumDiffNew(order) ==
  [ok |-> order \in 1..MAX_COMPRESSION_ORDER, order |-> order, hist |-> <<>>]

\* NumDiff::init(order, seed): the history is the seed alone
NumDiffInit(nd, order, seed) ==
  [nd EXCEPT !.order = order, !.hist = <<seed>>]

\* the difference of the highest order a series allows
RECURSIVE FiniteDiff(_)
FiniteDiff(h) ==
  IF Len(h) = 1 THEN h[1]
  ELSE FiniteDiff([i \in 1..(Len(h) - 1) |-> h[i + 1] - h[i]])

\* NumDiff::compress(x): the samples since init are kept, order + 1 at most,
\* and the difference of the order they allow is returned: [nd, val]
NumDiffCompress(nd, x) ==
  LET all == Append(nd.hist, x)
      keep == IF Len(all) > nd.order + 1
              THEN SubSeq(all, Len(all) - nd.order, Len(all)) ELSE all
  IN [nd |-> [nd EXCEPT !.hist = keep], val |-> FiniteDiff(keep)]

\* TextDiff::new, init
TextDiffNew == [seeded |-> FALSE, buf |-> <<>>]

TextDiffInit(td, s) == [seeded |-> TRUE, buf |-> s]

\* TextDiff::compress(s): a space where s repeats the state, the character
\* of s elsewhere; s becomes the state: [td, out]
TextDiffCompress(td, s) ==
  [td |-> [td EXCEPT !.buf = s],
   out |-> [i \in 1..Len(s) |->
              IF i <= Len(td.buf) /\ td.buf[i] = s[i] THEN " " ELSE s[i]]]

(***************************************************************************)
(* Collaborators: the header, the satellite parser, the comment predicate  *)
(***************************************************************************)
Constellations == {"G", "R", "E", "C", "J", "I", "S"}

NoSv == [constellation |-> "-", prn |-> 0]

\* Sv::from_str: a constellation letter, then the number: [ok, sv]
SvWithPrn(letter, prn) ==
  IF prn >= 0 THEN [ok |-> TRUE, sv |-> [constellation |-> letter, prn |-> prn]]
  ELSE [ok |-> FALSE, sv |-> NoSv]

SvFromStr(s) ==
  IF s = <<>> \/ s[1] \notin Constellations THEN [ok |-> FALSE, sv |-> NoSv]
  ELSE SvWithPrn(s[1], ParseU8(Trim(Tail(s))))

\* is_comment!: the marker COMMENT in the label band of the line
CommentMarker == <<"C","O","M","M","E","N","T">>

LabelColumn == 60

IsComment(line) ==
  /\ Len(line) >= LabelColumn + Len(CommentMarker)
  /\ SubSeq(line, LabelColumn + 1, LabelColumn + Len(CommentMarker))
       = CommentMarker

SpliceMarker ==
  <<"R","I","N","E","X"," ","F","I","L","E"," ","S","P","L","I","C","E">>

\* the headers compress is called with: an observation header declaring two
\* observables for G and one for R, G being the default constellation, and
\* a navigation header
ObsHeader ==
  [rinex_type |-> "ObservationData",
   codes |-> ("G" :> <<"C1", "L1">>) @@ ("R" :> <<"C1">>),
   constellation |-> "G"]

NavHeader ==
  [rinex_type |-> "NavigationData",
   codes |-> ("G" :> <<"C1", "L1">>) @@ ("R" :> <<"C1">>),
   constellation |-> "G"]

Headers == {ObsHeader, NavHeader}

(***************************************************************************)
(* The compressor                                                          *)
(***************************************************************************)
\* Compressor::new
CompressorNew ==
  [state |-> "EpochDescriptor",
   first_epoch |-> TRUE,
   epoch_ptr |-> 0,
   epoch_descriptor |-> <<>>,
   flags_descriptor |-> <<>>,
   nb_vehicules |-> 0,
   vehicule_ptr |-> 0,
   obs_ptr |-> 0,
   epoch_diff |-> TextDiffNew,
   clock_diff |-> NumDiffNew(MAX_COMPRESSION_ORDER),
   sv_diff |-> <<>>,
   forced_init |-> <<>>]

\* determine_nb_vehicules with the length test one character short
DetermineNbVehiculesOffByOne(content) ==
  IF Len(content) < NbFieldEnd THEN -1
  ELSE ParseU16(Trim(SubSeq(content, NbFieldStart + 1, NbFieldEnd)))

\* determine_nb_vehicules: the count, -1 for MalformedEpochDescriptor
DetermineNbVehicules(content) ==
  IF Len(content) < MinDescLen THEN -1
  ELSE ParseU16(Trim(SubSeq(content, NbFieldStart + 1, NbFieldEnd)))

\* format_epoch_descriptor
FormatEpochDescriptor(content) ==
  LET ls == SplitLines(content)
  IN <<"&">> \o Flatten([i \in 1..Len(ls) |-> Trim(ls[i])]) \o <<"\n">>

\* current_vehicule: [res, sv], res being Ok, Err or Panic (a slice past the
\* end of the descriptor, a digit-led field without default constellation)
SvResult(parsed) ==
  IF parsed.ok THEN [res |-> "Ok", sv |-> parsed.sv]
  ELSE [res |-> "Err", sv |-> NoSv]

IdentifyVehicule(vehicule, header) ==
  IF vehicule = <<>> THEN [res |-> "Err", sv |-> NoSv]
  ELSE IF IsDigit(vehicule[1]) /\ header.constellation = "None"
  THEN [res |-> "Panic", sv |-> NoSv]
  ELSE SvResult(SvFromStr(IF IsDigit(vehicule[1])
                          THEN <<header.constellation>> \o vehicule
                          ELSE vehicule))

CurrentVehicule(self, header) ==
  LET min == EpochSize + self.vehicule_ptr * SvSize
      max == min + SvSize
  IN IF max > Len(self.epoch_descriptor) THEN [res |-> "Panic", sv |-> NoSv]
     ELSE IdentifyVehicule(Trim(SubSeq(self.epoch_descriptor, min + 1, max)),
                           header)

\* an epoch concluded that keeps its descriptor
ConcludeEpochKeep(self) ==
  [self EXCEPT !.epoch_ptr = 0,
               !.vehicule_ptr = 0,
               !.state = "EpochDescriptor"]

\* conclude_epoch
ConcludeEpoch(self) ==
  [self EXCEPT !.epoch_ptr = 0,
               !.vehicule_ptr = 0,
               !.epoch_descriptor = <<>>,
               !.state = "EpochDescriptor"]

\* conclude_vehicule: [self, result]
ConcludeVehicule(self, content) ==
  LET moved == [self EXCEPT !.flags_descriptor = <<>>,
                            !.obs_ptr = 0,
                            !.vehicule_ptr = self.vehicule_ptr + 1]
  IN [self |-> IF moved.vehicule_ptr = moved.nb_vehicules
               THEN ConcludeEpoch(moved) ELSE moved,
      result |-> content \o TrimEnd(self.flags_descriptor) \o <<"\n">>]

(***************************************************************************)
(* One line of compress.  A context holds the compressor, the result       *)
(* string of the call, how the call stands (run, an Error, Panic) and, for *)
(* the properties, the log of what the line did.  An operator takes as     *)
(* parameters the values the code binds to locals.                         *)
(***************************************************************************)
\* what an event keeps of the compressor before and after it
Snap(self) ==
  [state |-> self.state,
   epoch_ptr |-> self.epoch_ptr,
   vehicule_ptr |-> self.vehicule_ptr,
   obs_ptr |-> self.obs_ptr,
   nb_vehicules |-> self.nb_vehicules,
   nflags |-> Len(self.flags_descriptor),
   forced_init |-> self.forced_init,
   sv_diff |-> self.sv_diff,
   first_epoch |-> self.first_epoch,
   epoch_descriptor |-> self.epoch_descriptor,
   flags_descriptor |-> self.flags_descriptor,
   epoch_diff |-> self.epoch_diff,
   clock_diff |-> self.clock_diff]

\* an event: its kind, the satellite and index it is about, the number of
\* characters the flags descriptor gained, the text appended to the result
Ev(c0, c1, kind, sv, idx, n, txt) ==
  [kind |-> kind, sv |-> sv, idx |-> idx, n |-> n, txt |-> txt,
   pre |-> Snap(c0.self), post |-> Snap(c1.self)]

\* the step from c0 to c1 with result.push_str(txt), logged as an event
Put(c0, c1, kind, sv, idx, n, txt) ==
  [c1 EXCEPT !.result = @ \o txt,
             !.ev = Append(@, Ev(c0, c1, kind, sv, idx, n, txt))]

\* the step from c0 to c1, logged as an event that appends nothing
Log(c0, c1, kind, sv, idx, n, txt) ==
  [c1 EXCEPT !.ev = Append(@, Ev(c0, c1, kind, sv, idx, n, txt))]

Stop(ctx, status) == [ctx EXCEPT !.status = status]

\* N(constellation): obs_codes[&sv.constellation].len()
NbObs(header, sv) == Len(header.codes[sv.constellation])

\* schedule re/init: push on the list of the satellite, or create it
ScheduleInit(forced_init, sv, index) ==
  IF sv \in DOMAIN forced_init
  THEN [forced_init EXCEPT ![sv] = Append(@, index)]
  ELSE forced_init @@ (sv :> <<index>>)

\* Vec::contains
VecContains(v, x) == \E i \in 1..Len(v) : v[i] = x

\* remove pending init: the first occurrence, then break
RemoveAt(indexes, i) ==
  SubSeq(indexes, 1, i - 1) \o SubSeq(indexes, i + 1, Len(indexes))

RemovePending(indexes, x) ==
  RemoveAt(indexes, SetMin({j \in 1..Len(indexes) : indexes[j] = x}))

\* the satellite is concluded, the flag block goes to the result
Concluded(ctx, r, sv, nbobs) ==
  Log(ctx, [ctx EXCEPT !.self = r.self, !.result = r.result],
      "conclude", sv, nbobs, Len(ctx.self.flags_descriptor),
      TrimEnd(ctx.self.flags_descriptor))

Conclude(ctx, sv, nbobs) ==
  Concluded(ctx, ConcludeVehicule(ctx.self, ctx.result), sv, nbobs)

\* vehicule completion
Completion(ctx, sv, sv_nb_obs) ==
  IF ctx.status = "run" /\ ctx.self.obs_ptr = sv_nb_obs
  THEN Conclude(ctx, sv, sv_nb_obs) ELSE ctx

\* a token that lacks the order and the ampersand
SeedTokenPlain(obsdata) == IntStr(obsdata) \o <<" ">>

\* the token of a (re)initialisation
SeedToken(obsdata) == <<"3", "&">> \o IntStr(obsdata) \o <<" ">>

\* a difference appended with the prefix of a seed
PutDeltaSeeded(ctx, sv, i, c) ==
  Put(ctx, [ctx EXCEPT !.self.sv_diff[sv][i].nd = c.nd],
      "delta", sv, i, 0, SeedToken(c.val))

\* compress data: the difference is appended
PutDelta(ctx, sv, i, c) ==
  Put(ctx, [ctx EXCEPT !.self.sv_diff[sv][i].nd = c.nd],
      "delta", sv, i, 0, IntStr(c.val) \o <<" ">>)

\* forced re/init is pending for (sv, obs_ptr)
Pending(self, sv) ==
  /\ sv \in DOMAIN self.forced_init
  /\ VecContains(self.forced_init[sv], self.obs_ptr)

\* data compression with the kernel of (sv, obs_ptr), which exists: a
\* forced reinitialization when one is pending, a difference otherwise
CompressData(ctx, sv, obsdata) ==
  IF Pending(ctx.self, sv)
  THEN Put(ctx,
           [ctx EXCEPT
              !.self.sv_diff[sv][ctx.self.obs_ptr].nd =
                 NumDiffInit(@, InitOrder, obsdata),
              !.self.forced_init[sv] = RemovePending(@, ctx.self.obs_ptr)],
           "reinit", sv, ctx.self.obs_ptr, 0, SeedToken(obsdata))
  ELSE PutDelta(ctx, sv, ctx.self.obs_ptr,
                NumDiffCompress(ctx.self.sv_diff[sv][ctx.self.obs_ptr].nd,
                                obsdata))

\* sv_diffs.insert(obs_ptr, diff), or sv_diff.insert(sv, map)
InsertKernels(sv_diff, sv, i, diff) ==
  IF sv \in DOMAIN sv_diff
  THEN [sv_diff EXCEPT ![sv] = (i :> diff) @@ @]
  ELSE sv_diff @@ (sv :> (i :> diff))

\* kernels inserted with the second flag kernel left as TextDiff::new made it
SeedKernelsUnseeded(ctx, sv, nd, obsdata, lli, ssi, flags) ==
  IF ~nd.ok THEN Stop(ctx, "KernelInit")
  ELSE Put(ctx,
           [ctx EXCEPT
              !.self.sv_diff =
                 InsertKernels(@, sv, ctx.self.obs_ptr,
                               [nd |-> NumDiffInit(nd, InitOrder, obsdata),
                                lli |-> TextDiffInit(TextDiffNew, lli),
                                ssi |-> TextDiffNew]),
              !.self.flags_descriptor = @ \o flags],
           "init", sv, ctx.self.obs_ptr, Len(flags), SeedToken(obsdata))

\* first time dealing with this observable or with this vehicule: the
\* kernels are created and seeded, lli and ssi being the seeds of the flag
\* kernels and flags what goes to the flags descriptor
SeedKernels(ctx, sv, nd, obsdata, lli, ssi, flags) ==
  IF ~nd.ok THEN Stop(ctx, "KernelInit")
  ELSE Put(ctx,
           [ctx EXCEPT
              !.self.sv_diff =
                 InsertKernels(@, sv, ctx.self.obs_ptr,
                               [nd |-> NumDiffInit(nd, InitOrder, obsdata),
                                lli |-> TextDiffInit(TextDiffNew, lli),
                                ssi |-> TextDiffInit(TextDiffNew, ssi)]),
              !.self.flags_descriptor = @ \o flags],
           "init", sv, ctx.self.obs_ptr, Len(flags), SeedToken(obsdata))

InitKernels(ctx, sv, obsdata, lli, ssi, flags) ==
  SeedKernels(ctx, sv, NumDiffNew(MAX_COMPRESSION_ORDER), obsdata, lli, ssi,
              flags)

\* a flag of an observable whose kernels exist: compressed by its kernel
\* (which is lli or ssi) when present, a blank otherwise
PushFlag(ctx, sv, i, which, c) ==
  [ctx EXCEPT !.self.sv_diff[sv][i][which] = c.td,
              !.self.flags_descriptor = @ \o c.out]

CompressFlag(ctx, sv, i, which, flag) ==
  IF Len(flag) > 0
  THEN PushFlag(ctx, sv, i, which,
                TextDiffCompress(ctx.self.sv_diff[sv][i][which], flag))
  ELSE [ctx EXCEPT !.self.flags_descriptor = @ \o <<" ">>]

\* the last event records how many characters the flags descriptor gained
FlagsLogged(ctx, before) ==
  [ctx EXCEPT !.ev[Len(ctx.ev)].n = Len(ctx.self.flags_descriptor) - before,
              !.ev[Len(ctx.ev)].post = Snap(ctx.self)]

\* the field parsed as a number
EncodeData(ctx, sv, i, obsdata, flags, lli, ssi) ==
  IF Trim(flags) = <<>>
  THEN \* both flags omitted
       IF sv \in DOMAIN ctx.self.sv_diff
       THEN IF i \in DOMAIN ctx.self.sv_diff[sv]
            THEN CompressData(ctx, sv, obsdata)
            ELSE InitKernels(ctx, sv, obsdata, <<" ">>, <<" ">>, <<" ", " ">>)
       ELSE InitKernels(ctx, sv, obsdata, <<"&">>, <<"&">>, <<" ", " ">>)
  ELSE \* not all flags omitted
       IF sv \in DOMAIN ctx.self.sv_diff
       THEN IF i \in DOMAIN ctx.self.sv_diff[sv]
            THEN FlagsLogged(
                   CompressFlag(
                     CompressFlag(CompressData(ctx, sv, obsdata),
                                  sv, i, "lli", lli),
                     sv, i, "ssi", ssi),
                   Len(ctx.self.flags_descriptor))
            ELSE InitKernels(ctx, sv, obsdata,
                             IF Len(lli) > 0 THEN lli ELSE <<"&">>,
                             IF Len(ssi) > 0 THEN ssi ELSE <<"&">>,
                             (IF Len(lli) > 0 THEN lli ELSE <<" ">>)
                               \o (IF Len(ssi) > 0 THEN ssi ELSE <<" ">>))
       ELSE InitKernels(ctx, sv, obsdata, lli,
                        IF Len(ssi) > 0 THEN ssi ELSE <<"&">>,
                        lli \o (IF Len(ssi) > 0 THEN ssi ELSE <<" ">>))

\* an unparsable field that leaves one blank in the flags descriptor
EncodeParsedOneFlag(ctx, sv, parsed, flags) ==
  IF ~parsed.ok
  THEN Put(ctx,
           [ctx EXCEPT
              !.self.flags_descriptor = @ \o <<" ">>,
              !.self.forced_init = ScheduleInit(@, sv, ctx.self.obs_ptr)],
           "omit", sv, ctx.self.obs_ptr, 1, <<" ">>)
  ELSE EncodeData(ctx, sv, ctx.self.obs_ptr, parsed.val, flags,
                  SubSeq(flags, 1, 1), SubSeq(flags, 2, Len(flags)))

\* the field cut in data and flags, the data parsed
EncodeParsed(ctx, sv, parsed, flags) ==
  IF ~parsed.ok
  THEN \* the field is assumed omitted
       Put(ctx,
           [ctx EXCEPT
              !.self.flags_descriptor = @ \o <<" ", " ">>,
              !.self.forced_init = ScheduleInit(@, sv, ctx.self.obs_ptr)],
           "omit", sv, ctx.self.obs_ptr, 2, <<" ">>)
  ELSE EncodeData(ctx, sv, ctx.self.obs_ptr, parsed.val, flags,
                  SubSeq(flags, 1, 1), SubSeq(flags, 2, Len(flags)))

\* one observable field of a body line: data.split_at(14) panics on a
\* shorter field
EncodeField(ctx, sv, data) ==
  IF Len(data) < ObsData THEN Stop(ctx, "Panic")
  ELSE EncodeParsed(ctx, sv, ParseObs(Trim(SubSeq(data, 1, ObsData))),
                    SubSeq(data, ObsData + 1, Len(data)))

\* compress all observables of the line: nb fields are cut off observables
RECURSIVE EncodeFields(_, _, _, _, _)
\* the field is encoded: obs_ptr moves on, an unexpected overflow fails
EncodeNext(ctx, sv, sv_nb_obs, rem, nb) ==
  IF ctx.status # "run" THEN ctx
  ELSE IF ctx.self.obs_ptr + 1 > sv_nb_obs
  THEN Stop([ctx EXCEPT !.self.obs_ptr = @ + 1], "MalformedEpochBody")
  ELSE EncodeFields([ctx EXCEPT !.self.obs_ptr = @ + 1], sv, sv_nb_obs, rem,
                    nb)

EncodeFields(ctx, sv, sv_nb_obs, observables, nb) ==
  IF nb = 0 \/ ctx.status # "run" THEN ctx
  ELSE EncodeNext(
         EncodeField(ctx, sv,
                     SubSeq(observables, 1,
                            Min2(ObsField, Len(observables)))),
         sv, sv_nb_obs,
         SubSeq(observables, Min2(ObsField, Len(observables)) + 1,
                Len(observables)),
         nb - 1)

\* width of epoch_ptr: a u8
PtrWidth == 256

\* the descriptor is complete: the counters are reset, the body follows
EnterBody(ctx) ==
  [ctx EXCEPT !.self.obs_ptr = 0,
              !.self.vehicule_ptr = 0,
              !.self.flags_descriptor = <<>>,
              !.self.state = "Body"]

\* a later descriptor goes through the epoch kernel
DescriptorDiff(ctx, td) ==
  Put(ctx, [ctx EXCEPT !.self.epoch_diff = td.td],
      "diff", NoSv, ctx.self.epoch_ptr,
      IF ctx.self.epoch_diff.seeded THEN 1 ELSE 0,
      TrimEnd(td.out) \o <<"\n", "\n">>)

\* end of descriptor that forgets to clear first_epoch
DescriptorEndKeepFirst(ctx) ==
  EnterBody(
    IF ctx.self.first_epoch
    THEN Put(ctx,
             [ctx EXCEPT
                !.self.epoch_diff = TextDiffInit(@, ctx.self.epoch_descriptor)],
             "first", NoSv, ctx.self.epoch_ptr,
             IF ctx.self.epoch_diff.seeded THEN 1 ELSE 0,
             ctx.self.epoch_descriptor \o <<"\n">>)
    ELSE DescriptorDiff(ctx, TextDiffCompress(ctx.self.epoch_diff,
                                              ctx.self.epoch_descriptor)))

\* end of descriptor: format to CRINEX, the first one initialises the
\* epoch kernel and is fed as is
DescriptorEnd(ctx) ==
  EnterBody(
    IF ctx.self.first_epoch
    THEN Put(ctx,
             [ctx EXCEPT
                !.self.epoch_diff = TextDiffInit(@, ctx.self.epoch_descriptor),
                !.self.first_epoch = FALSE],
             "first", NoSv, ctx.self.epoch_ptr,
             IF ctx.self.epoch_diff.seeded THEN 1 ELSE 0,
             ctx.self.epoch_descriptor \o <<"\n">>)
    ELSE DescriptorDiff(ctx, TextDiffCompress(ctx.self.epoch_diff,
                                              ctx.self.epoch_descriptor)))

\* the line is appended; the descriptor ends with line number
\* div_ceil(nb_vehicules, 12) as u8
DescriptorAppended(ctx) ==
  IF ctx.self.epoch_ptr # DivCeil(ctx.self.nb_vehicules, SvPerLine) % PtrWidth
  THEN ctx
  ELSE DescriptorEnd([ctx EXCEPT !.self.epoch_descriptor =
                                    FormatEpochDescriptor(@)])

DescriptorCounted(ctx, line, wrap, nb) ==
  IF nb < 0 THEN Stop(ctx, "MalformedEpochDescriptor")
  ELSE IF ctx.self.epoch_ptr + 1 >= PtrWidth /\ ~wrap
  THEN Stop([ctx EXCEPT !.self.nb_vehicules = nb], "Overflow")
  ELSE DescriptorAppended(
         [ctx EXCEPT !.self.nb_vehicules = nb,
                     !.self.epoch_ptr = (@ + 1) % PtrWidth,
                     !.self.epoch_descriptor = @ \o line \o <<"\n">>])

\* State::EpochDescriptor arm of the match: the first line gives the
\* number of vehicules
DescriptorLine(ctx, line, wrap) ==
  DescriptorCounted(ctx, line, wrap,
                    IF ctx.self.epoch_ptr = 0 THEN DetermineNbVehicules(line)
                    ELSE ctx.self.nb_vehicules)

\* facing an overflow: the final fields of the satellite were omitted
\* final fields omitted of which the first alone is made up for
OmitFinalFieldsOne(ctx, sv, index, sv_nb_obs) ==
  IF index >= sv_nb_obs THEN ctx
  ELSE Put(ctx, [ctx EXCEPT !.self.forced_init = ScheduleInit(@, sv, index)],
           "omit_final", sv, index, 0, <<" ">>)

RECURSIVE OmitFinalFields(_, _, _, _)
OmitFinalFields(ctx, sv, index, sv_nb_obs) ==
  IF index >= sv_nb_obs THEN ctx
  ELSE OmitFinalFields(
         Put(ctx,
             [ctx EXCEPT !.self.forced_init = ScheduleInit(@, sv, index)],
             "omit_final", sv, index, 0, <<" ">>),
         sv, index + 1, sv_nb_obs)

\* epoch got also concluded: rewind fsm, the line is a descriptor
Rewind(ctx, line, nb) ==
  IF nb < 0 THEN Stop(ctx, "MalformedEpochDescriptor")
  ELSE [ctx EXCEPT !.self.nb_vehicules = nb,
                   !.self.epoch_ptr = 1,
                   !.self.epoch_descriptor = @ \o line \o <<"\n">>]

\* past the overflow test (guard tells that it concluded the satellite):
\* the observables of the line are compressed with sv and sv_nb_obs
BodyFields(ctx, guard, line, sv, sv_nb_obs) ==
  IF guard /\ ctx.self.state = "EpochDescriptor"
  THEN Rewind(ctx, line, DetermineNbVehicules(line))
  ELSE Completion(EncodeFields(ctx, sv, sv_nb_obs, line,
                               DivCeil(Len(line), ObsSlot)),
                  sv, sv_nb_obs)

BodyOverflow(ctx, guard, line, sv, sv_nb_obs) ==
  BodyFields(IF guard
             THEN Conclude(OmitFinalFields(ctx, sv, ctx.self.obs_ptr,
                                           sv_nb_obs),
                           sv, sv_nb_obs)
             ELSE ctx,
             guard, line, sv, sv_nb_obs)

BodyVehicule(ctx, header, line, cv) ==
  IF cv.res = "Panic" THEN Stop(ctx, "Panic")
  ELSE IF cv.res = "Err" THEN Stop(ctx, "VehiculeIdentificationError")
  ELSE IF cv.sv.constellation \notin DOMAIN header.codes
  THEN Stop(ctx, "Panic")
  ELSE BodyOverflow(ctx,
                    ctx.self.obs_ptr + DivCeil(Len(line), ObsSlot)
                      > NbObs(header, cv.sv),
                    line, cv.sv, NbObs(header, cv.sv))

\* State::Body arm of the match
BodyLine(ctx, header, line) ==
  BodyVehicule(ctx, header, line, CurrentVehicule(ctx.self, header))

\* early empty line: nb_missing fields are missing
RECURSIVE MissingFields(_, _, _, _)
MissingFields(ctx, sv, i, nb_missing) ==
  IF i >= nb_missing THEN ctx
  ELSE MissingFields(
         Log(ctx,
             [ctx EXCEPT
                !.self.flags_descriptor = @ \o <<" ", " ">>,
                !.self.forced_init = ScheduleInit(@, sv, ctx.self.obs_ptr + i)],
             "omit_early", sv, ctx.self.obs_ptr + i, 2, <<>>),
         sv, i + 1, nb_missing)

EarlyMissing(ctx, sv, sv_nb_obs, nb_missing) ==
  [ctx |-> Completion([MissingFields(ctx, sv, 0, nb_missing)
                         EXCEPT !.self.obs_ptr = @ + nb_missing],
                      sv, sv_nb_obs),
   next |-> nb_missing > 0]

\* sv_nb_obs - obs_ptr is unsigned: below zero it panics or wraps
EarlyVehicule(ctx, header, wrap, cv) ==
  IF cv.res = "Panic" THEN [ctx |-> Stop(ctx, "Panic"), next |-> TRUE]
  ELSE IF cv.res = "Err" THEN [ctx |-> ctx, next |-> FALSE]
  ELSE IF cv.sv.constellation \notin DOMAIN header.codes
  THEN [ctx |-> Stop(ctx, "Panic"), next |-> TRUE]
  ELSE IF NbObs(header, cv.sv) < ctx.self.obs_ptr /\ ~wrap
  THEN [ctx |-> Stop(ctx, "Overflow"), next |-> TRUE]
  ELSE EarlyMissing(ctx, cv.sv, NbObs(header, cv.sv),
                    IF NbObs(header, cv.sv) < ctx.self.obs_ptr
                    THEN ObsPerLine
                    ELSE Min2(ObsPerLine,
                              NbObs(header, cv.sv) - ctx.self.obs_ptr))

\* a line completely empty while a satellite is active: [ctx, next], next
\* telling that the loop goes on to the next line (continue)
EarlyEmptyLine(ctx, header, line, wrap) ==
  IF Trim(line) = <<>> /\ ctx.self.state = "Body" /\ ctx.self.obs_ptr > 0
  THEN EarlyVehicule(ctx, header, wrap, CurrentVehicule(ctx.self, header))
  ELSE [ctx |-> ctx, next |-> FALSE]

\* a comment that resets the FSM whether it is a splice or not
CommentLineReset(ctx, line) ==
  Put(ctx, [ctx EXCEPT !.self.state = "EpochDescriptor"],
      "comment", NoSv, 0, 0, line \o <<"\n">>)

\* [0] comments: fed as is; a splice resets the FSM
CommentLine(ctx, line) ==
  Put(ctx,
      IF Contains(line, SpliceMarker)
      THEN [ctx EXCEPT !.self.state = "EpochDescriptor"] ELSE ctx,
      "comment", NoSv, 0, 0, line \o <<"\n">>)

\* the line past the test of the early empty line
Dispatch(e, header, line, wrap) ==
  IF e.next THEN e.ctx
  ELSE IF IsComment(line) THEN CommentLine(e.ctx, line)
  ELSE IF e.ctx.self.state = "EpochDescriptor"
  THEN DescriptorLine(e.ctx, line, wrap)
  ELSE BodyLine(e.ctx, header, line)

\* one turn of the main loop of compress
LineStep(ctx, header, line, wrap) ==
  Dispatch(EarlyEmptyLine(ctx, header, line, wrap), header, line, wrap)

\* the main loop: the lines in turn until one fails; trace keeps, for each
\* line, the compressor before and after it and what it appended
RECURSIVE MainLoop(_, _, _, _, _)
MainLoopNext(ctx, c1, header, lines, wrap, trace) ==
  MainLoop(c1, header, Tail(lines), wrap,
           Append(trace,
                  [line |-> Head(lines),
                   pre |-> ctx.self,
                   post |-> c1.self,
                   out |-> SubSeq(c1.result, Len(ctx.result) + 1,
                                  Len(c1.result)),
                   ev |-> c1.ev,
                   status |-> c1.status]))

MainLoop(ctx, header, lines, wrap, trace) ==
  IF lines = <<>> \/ ctx.status # "run"
  THEN [self |-> ctx.self, status |-> ctx.status, result |-> ctx.result,
        trace |-> trace]
  ELSE MainLoopNext(ctx,
                    LineStep([ctx EXCEPT !.ev = <<>>], header, Head(lines),
                             wrap),
                    header, lines, wrap, trace)

\* what compress returns: [self, kind, out, trace]; kind is Ok, the Error
\* returned, Panic or (the build checking arithmetic) Overflow; out is the
\* string returned, empty unless kind is Ok
Returned(r) ==
  [self |-> r.self,
   kind |-> IF r.status = "run" THEN "Ok" ELSE r.status,
   out |-> IF r.status = "run" THEN r.result ELSE <<>>,
   trace |-> r.trace]

\* compress without its sanity check of the header
CompressNoCheck(self, header, content, wrap) ==
  Returned(MainLoop([self |-> self, result |-> <<>>, status |-> "run",
                     ev |-> <<>>], header, content, wrap, <<>>))

\* compress that starts every call on a fresh satellite line
CompressFresh(self, header, content, wrap) ==
  IF header.rinex_type # "ObservationData"
  THEN [self |-> self, kind |-> "NotObsRinexData", out |-> <<>>,
        trace |-> <<>>]
  ELSE Returned(MainLoop([self |-> [self EXCEPT !.obs_ptr = 0],
                          result |-> <<>>, status |-> "run",
                          ev |-> <<>>], header, content, wrap, <<>>))

\* Compressor::compress
Compress(self, header, content, wrap) ==
  IF header.rinex_type # "ObservationData"
  THEN [self |-> self, kind |-> "NotObsRinexData", out |-> <<>>,
        trace |-> <<>>]
  ELSE Returned(MainLoop([self |-> self, result |-> <<>>, status |-> "run",
                          ev |-> <<>>], header, content, wrap, <<>>))

(***************************************************************************)
(* The lines the model feeds                                               *)
(***************************************************************************)
\* the date and flag columns 1..28 of an epoch descriptor, sec its last
\* digit of the seconds
Stamp(sec) ==
  <<"2","1"," ","1","2"," ","2","1"," "," ","0"," "," ","0"," "," ","0",
    ".","0","0","0","0","0","0",sec," "," ","0">>

\* a first descriptor line: a blank, the stamp, the count in columns 29..31
\* (nb being columns 30..31), the satellites from column 32 on
Descriptor(sec, nb, sats) == <<" ">> \o Stamp(sec) \o <<" ">> \o nb \o sats

G01 == <<"G","0","1">>

G02 == <<"G","0","2">>

R01 == <<"R","0","1">>

\* one epoch of R01 alone, of G01 alone, of G01 and G02, of G01 and R01
LineR == Descriptor("0", <<" ","1">>, R01)

LineR2 == Descriptor("5", <<" ","1">>, R01)

LineG == Descriptor("0", <<" ","1">>, G01)

LineGG == Descriptor("0", <<" ","2">>, G01 \o G02)

LineGR == Descriptor("0", <<" ","2">>, G01 \o R01)

\* descriptors compress refuses: no count, and too short
LineNoCount == Descriptor("0", <<" ","x">>, R01)

LineShort == <<" ","2","1"," ","1","2"," ","2","1"," ">>

\* a descriptor of count zero, and one cut right after its count, one
\* character short of the least length
LineZero == Descriptor("0", <<" ","0">>, <<" ">>)

LineCut == Descriptor("0", <<" ","1">>, <<>>)

\* descriptors of count 2 whose second satellite is not listed, whose first
\* satellite is blank, whose second satellite is no satellite
LineMissing == Descriptor("0", <<" ","2">>, R01)

LineBlankSv == Descriptor("0", <<" ","2">>, <<" "," "," ">> \o R01)

LineBadSv == Descriptor("0", <<" ","2">>, R01 \o <<"R","x","x">>)

\* observables: 14 characters of data, then the two flags
Obs1 == <<" "," "," "," "," "," "," "," "," ","1",".","0","0","0">>

Obs2 == <<" "," "," "," "," "," "," "," "," ","2",".","5","0","0">>

ObsBad == <<" "," "," "," "," "," "," "," "," ","x",".","0","0","0">>

\* body lines: one observable, without flags, with both flags, with the
\* first flag alone, unparsable; two observables; three observables
LineObs == Obs1

LineObs2 == Obs2

LineFlags == Obs1 \o <<"1","7">>

LineLli == Obs2 \o <<"4">>

LineBad == ObsBad

LineTwo == Obs1 \o <<" "," ">> \o Obs2

LineTwoFlags == Obs1 \o <<" ","5">> \o Obs2 \o <<"1","7">>

\* two observables, the flags 1 and 7 on the first one, on the second one
LineFlagsFirst == Obs1 \o <<"1","7">> \o Obs2

LineFlagsSecond == Obs1 \o <<" "," ">> \o Obs2 \o <<"1","7">>

\* one observable with its flags, then four blanks that trail
LineTrail == Obs1 \o <<"1","7">> \o Rep(" ", 4)

LineThree == Obs1 \o <<" "," ">> \o Obs2 \o <<" "," ">> \o Obs1

LineEmpty == <<>>

LineBlank == Rep(" ", MinDescLen)

\* comments: the text, blanks up to the label column, the marker
Comment(text) == text \o Rep(" ", LabelColumn - Len(text)) \o CommentMarker

LineComment == Comment(<<"h","i">>)

LineComment2 == Comment(<<"y","o">>)

LineSplice == Comment(SpliceMarker)

(***************************************************************************)
(* State                                                                   *)
(***************************************************************************)
VARIABLES
  state, first_epoch, epoch_ptr, epoch_descriptor, flags_descriptor,
  nb_vehicules, vehicule_ptr, obs_ptr, epoch_diff, clock_diff, sv_diff,
  forced_init,
  \* the last call of compress: its header and content, the compressor
  \* before it, what it returned and the trace of its lines
  last,
  \* number of lines the instance was handed so far
  fed,
  \* the build: unsigned arithmetic wraps (release) or is checked (debug)
  wrapping

fields == <<state, first_epoch, epoch_ptr, epoch_descriptor, flags_descriptor,
            nb_vehicules, vehicule_ptr, obs_ptr, epoch_diff, clock_diff,
            sv_diff, forced_init>>

vars == <<fields, last, fed, wrapping>>

\* the compressor as one value
Self ==
  [state |-> state,
   first_epoch |-> first_epoch,
   epoch_ptr |-> epoch_ptr,
   epoch_descriptor |-> epoch_descriptor,
   flags_descriptor |-> flags_descriptor,
   nb_vehicules |-> nb_vehicules,
   vehicule_ptr |-> vehicule_ptr,
   obs_ptr |-> obs_ptr,
   epoch_diff |-> epoch_diff,
   clock_diff |-> clock_diff,
   sv_diff |-> sv_diff,
   forced_init |-> forced_init]

Init ==
  /\ state = CompressorNew.state
  /\ first_epoch = CompressorNew.first_epoch
  /\ epoch_ptr = CompressorNew.epoch_ptr
  /\ epoch_descriptor = CompressorNew.epoch_descriptor
  /\ flags_descriptor = CompressorNew.flags_descriptor
  /\ nb_vehicules = CompressorNew.nb_vehicules
  /\ vehicule_ptr = CompressorNew.vehicule_ptr
  /\ obs_ptr = CompressorNew.obs_ptr
  /\ epoch_diff = CompressorNew.epoch_diff
  /\ clock_diff = CompressorNew.clock_diff
  /\ sv_diff = CompressorNew.sv_diff
  /\ forced_init = CompressorNew.forced_init
  /\ last = [header |-> ObsHeader, content |-> <<>>, pre |-> CompressorNew,
             kind |-> "None", out |-> <<>>, trace |-> <<>>]
  /\ fed = 0
  /\ wrapping \in BOOLEAN

\* the contents of n lines at most over an alphabet of lines
Contents(alphabet, n) == UNION {[1..k -> alphabet] : k \in 0..n}

\* a call compress(header, content) that returned r; a panic ends the
\* program
Called(header, content, r) ==
  /\ last.kind # "Panic"
  /\ state' = r.self.state
  /\ first_epoch' = r.self.first_epoch
  /\ epoch_ptr' = r.self.epoch_ptr
  /\ epoch_descriptor' = r.self.epoch_descriptor
  /\ flags_descriptor' = r.self.flags_descriptor
  /\ nb_vehicules' = r.self.nb_vehicules
  /\ vehicule_ptr' = r.self.vehicule_ptr
  /\ obs_ptr' = r.self.obs_ptr
  /\ epoch_diff' = r.self.epoch_diff
  /\ clock_diff' = r.self.clock_diff
  /\ sv_diff' = r.self.sv_diff
  /\ forced_init' = r.self.forced_init
  /\ last' = [header |-> header, content |-> content, pre |-> Self,
              kind |-> IF r.kind = "Overflow" THEN "Panic" ELSE r.kind,
              out |-> r.out, trace |-> r.trace]
  /\ fed' = fed + Len(content)
  /\ UNCHANGED wrapping

Call(header, content) ==
  Called(header, content, Compress(Self, header, content, wrapping))

\* compress called on an alphabet of lines, limit lines over all calls
Feed(alphabet, limit) ==
  \E header \in Headers :
    \E content \in Contents(alphabet, Min2(MaxContent, limit - fed)) :
      Call(header, content)

\* the epoch FSM: descriptors, one-observable lines, comments and splices
FsmLines == {LineR, LineR2, LineGR, LineObs, LineComment, LineSplice}

Next == Feed(FsmLines, MaxLines)

Spec == Init /\ [][Next]_vars

\* first lines of descriptors, well and ill formed, between epochs
DescLines ==
  {LineR, LineObs, LineCut, LineNoCount, LineBlank, LineEmpty, LineZero}

NextDesc == Feed(DescLines, MaxLines)

SpecDesc == Init /\ [][NextDesc]_vars

\* bodies: observables with and without flags, unparsable, omitted, and
\* lines of more fields than the satellite has observables
BodyLines ==
  {LineR, LineGR, LineObs, LineFlags, LineBad, LineThree, LineEmpty}

NextBody == Feed(BodyLines, MaxLines)

SpecBody == Init /\ [][NextBody]_vars

\* a descriptor block that does not end: a count of zero, then the lines
\* it swallows until epoch_ptr has gone round its width
StalledLines == {LineZero}

\* compress called with the observation header on lines of the block
FeedStalled ==
  \E content \in Contents(StalledLines, Min2(MaxContent, MaxStalled - fed)) :
    content # <<>> /\ Call(ObsHeader, content)

NextStalled == FeedStalled

SpecStalled == Init /\ [][NextStalled]_vars

\* one satellite of one observable over three epochs: live samples with
\* and without flags, and dropouts
SampleLines == {LineR, LineObs, LineLli, LineBad}

\* compress called with the observation header on lines of these epochs
FeedSamples ==
  \E content \in Contents(SampleLines, Min2(MaxContent, MaxSamples - fed)) :
    content # <<>> /\ Call(ObsHeader, content)

NextSamples == FeedSamples

SpecSamples == Init /\ [][NextSamples]_vars

\* epochs whose descriptor announces a satellite it does not hold
VehiculeLines == {LineR, LineObs, LineMissing, LineBlankSv, LineBadSv}

NextVehicule == Feed(VehiculeLines, MaxLines)

SpecVehicule == Init /\ [][NextVehicule]_vars

\* epochs of two satellites of two observables, lines of one observable
\* (the second omitted), of one observable and trailing blanks, and of two
OmitLines == {LineGG, LineR, LineObs, LineTwo, LineTrail}

NextOmit == Feed(OmitLines, MaxLines)

SpecOmit == Init /\ [][NextOmit]_vars

\* epochs of one satellite of two observables, the flags on either one
FlagLines == {LineG, LineTwo, LineFlagsFirst, LineFlagsSecond}

NextFlags == Feed(FlagLines, MaxLines)

SpecFlags == Init /\ [][NextFlags]_vars

(***************************************************************************)
(* Properties                                                              *)
(***************************************************************************)
\* the events of a line of the trace of the last call
Events(t) == {t.ev[k] : k \in DOMAIN t.ev}

\* the lines of the last call
Lines == {last.trace[i] : i \in DOMAIN last.trace}

\* the count a first descriptor line carries in its characters [30..32]:
\* the decimal number they hold, -1 when the line is too short or the
\* characters are no decimal number
CountOf(line) ==
  IF Len(line) < MinDescLen THEN -1
  ELSE LET f == Trim(SubSeq(line, NbFieldStart + 1, NbFieldEnd))
       IN IF f # <<>> /\ AllDigits(f) THEN DigitsVal(f) ELSE -1

\* C1: compress called with a header that is not of observation data
\* returns NotObsRinexData whatever the content, gives no output and leaves
\* every field of the compressor as it was
C1_NotObsRinexData ==
  last.header.rinex_type # "ObservationData" =>
    /\ last.kind = "NotObsRinexData"
    /\ last.out = <<>>
    /\ Self = last.pre

\* a navigation header with lines to compress, in the middle of a satellite
C1_Witness ==
  /\ last.header.rinex_type # "ObservationData"
  /\ last.content # <<>>
  /\ last.pre.state = "Body"
  /\ last.pre.obs_ptr > 0
  /\ last.kind = "NotObsRinexData"

\* C2: in state EpochDescriptor with epoch_ptr = 0, a line that is no
\* comment and is shorter than 33 characters, or whose characters [30..32]
\* are no decimal number, makes compress fail with MalformedEpochDescriptor;
\* any other line is accepted and sets nb_vehicules to its count
C2_FirstDescriptorLine ==
  \A t \in Lines :
    (t.pre.state = "EpochDescriptor" /\ t.pre.epoch_ptr = 0
       /\ ~IsComment(t.line)) =>
      IF CountOf(t.line) < 0
      THEN /\ t.status = "MalformedEpochDescriptor"
           /\ last.kind = "MalformedEpochDescriptor"
           /\ last.out = <<>>
      ELSE /\ t.status = "run"
           /\ t.post.nb_vehicules = CountOf(t.line)

\* a blank line of 33 characters refused between two epochs, a descriptor
\* of one satellite having been accepted and its epoch compressed before
C2_Witness ==
  \E t \in Lines :
    /\ t.pre.state = "EpochDescriptor" /\ t.pre.epoch_ptr = 0
    /\ ~t.pre.first_epoch
    /\ t.pre.nb_vehicules = 1
    /\ t.line = LineBlank
    /\ t.status = "MalformedEpochDescriptor"

\* the last call cut in two after its k first lines: the two calls
SplitFirst(k) ==
  Compress(last.pre, last.header, SubSeq(last.content, 1, k), wrapping)

SplitSecond(a, k) ==
  Compress(a.self, last.header,
           SubSeq(last.content, k + 1, Len(last.content)), wrapping)

SplitAgrees(a, b) ==
  (a.kind = "Ok" /\ b.kind = "Ok") =>
    /\ last.kind = "Ok"
    /\ last.out = a.out \o b.out
    /\ Self = b.self

\* C3: compress is streaming-safe: from any state, for a content cut at a
\* line boundary in A then B, when no call fails, compress(A) then
\* compress(B) give outputs whose concatenation is the output of
\* compress(A then B), and end in the same compressor state
C3_StreamingSafe ==
  last.kind # "None" =>
    \A k \in 0..Len(last.content) :
      SplitAgrees(SplitFirst(k), SplitSecond(SplitFirst(k), k))

\* a call of two lines cut in the middle of a satellite: the descriptor of
\* two satellites in A, the first of the two observables of G01 in B
C3_Witness ==
  /\ last.kind = "Ok"
  /\ last.content = <<LineGR, LineObs>>
  /\ state = "Body"
  /\ obs_ptr = 1
  /\ SplitFirst(1).kind = "Ok"
  /\ SplitSecond(SplitFirst(1), 1).out # <<>>

\* the descriptor a line completed, as it is kept for the body
Completed(t) == t.post.epoch_descriptor

\* C4: the first completed descriptor of an instance is emitted as it is
\* reshaped (a single line beginning with &) followed by one empty line and
\* seeds epoch_diff; every later one is emitted as epoch_diff.compress of it,
\* right-trimmed, a newline and one empty line; epoch_diff.compress is never
\* invoked before the seed; first_epoch goes from true to false once and
\* never back
C4_EpochDescriptorOutput ==
  /\ first_epoch = ~epoch_diff.seeded
  /\ (~last.pre.first_epoch => ~first_epoch)
  /\ \A t \in Lines :
       /\ (t.post.first_epoch => t.pre.first_epoch)
       /\ (t.pre.state = "EpochDescriptor" /\ t.post.state = "Body") =>
            \E e \in Events(t) : e.kind \in {"first", "diff"}
       /\ \A e \in Events(t) :
            /\ e.kind = "first" =>
                 /\ t.pre.first_epoch /\ ~t.post.first_epoch
                 /\ ~t.pre.epoch_diff.seeded
                 /\ Head(Completed(t)) = "&"
                 /\ {i \in DOMAIN Completed(t) : Completed(t)[i] = "\n"}
                      = {Len(Completed(t))}
                 /\ (t.pre.epoch_ptr = 0 =>
                       Completed(t) = <<"&">> \o Trim(t.line) \o <<"\n">>)
                 /\ t.out = Completed(t) \o <<"\n">>
                 /\ t.post.epoch_diff = TextDiffInit(t.pre.epoch_diff,
                                                     Completed(t))
            /\ e.kind = "diff" =>
                 /\ ~t.pre.first_epoch
                 /\ t.pre.epoch_diff.seeded
                 /\ e.n = 1
                 /\ t.out =
                      TrimEnd(TextDiffCompress(t.pre.epoch_diff,
                                               Completed(t)).out)
                        \o <<"\n", "\n">>
                 /\ t.post.epoch_diff =
                      TextDiffCompress(t.pre.epoch_diff, Completed(t)).td

\* a later descriptor that differs from the one before it
C4_Witness ==
  \E t \in Lines :
    /\ t.line = LineR2
    /\ \E e \in Events(t) : e.kind = "diff"
    /\ t.pre.epoch_diff.buf = <<"&">> \o Trim(LineR) \o <<"\n">>
    /\ Len(t.out) > 2

\* the text the lines of the last call appended, in their order
RECURSIVE Appended(_)
Appended(trace) ==
  IF trace = <<>> THEN <<>> ELSE Head(trace).out \o Appended(Tail(trace))

\* the fields a comment leaves alone
Framed(self) ==
  <<self.state, self.epoch_ptr, self.vehicule_ptr, self.obs_ptr,
    self.nb_vehicules, self.epoch_descriptor, self.flags_descriptor,
    self.sv_diff, self.forced_init, self.first_epoch>>

\* C5: comments bypass the FSM: in every state a comment line is appended
\* to the output as it is, followed by a newline; the output is what the
\* lines appended in their input order; a comment that is no splice marker
\* leaves state, epoch_ptr, vehicule_ptr, obs_ptr, nb_vehicules, both
\* descriptors, sv_diff, forced_init and first_epoch unchanged
C5_CommentPassThrough ==
  /\ last.kind = "Ok" => last.out = Appended(last.trace)
  /\ \A t \in Lines :
       IsComment(t.line) =>
         /\ t.status = "run"
         /\ t.out = t.line \o <<"\n">>
         /\ ~Contains(t.line, SpliceMarker) => Framed(t.post) = Framed(t.pre)

\* a comment in the middle of a satellite
C5_Witness ==
  /\ last.kind = "Ok"
  /\ \E t \in Lines :
       /\ t.line = LineComment
       /\ t.pre.state = "Body"
       /\ t.pre.obs_ptr > 0
       /\ t.post.obs_ptr = t.pre.obs_ptr

\* C6: after a comment containing RINEX FILE SPLICE, in whatever state it
\* arrives, the next line that is no comment is the first line of a fresh
\* descriptor: its characters [30..32] are parsed as K, with
\* MalformedEpochDescriptor if that fails, and the descriptor it starts is
\* complete after ceil(K/12) lines (so with this line when 1 <= K <= 12)
C6_SpliceReset ==
  \A i, j \in DOMAIN last.trace :
    (/\ i < j
     /\ IsComment(last.trace[i].line)
     /\ Contains(last.trace[i].line, SpliceMarker)
     /\ \A k \in (i + 1)..(j - 1) : IsComment(last.trace[k].line)
     /\ ~IsComment(last.trace[j].line)) =>
      IF CountOf(last.trace[j].line) < 0
      THEN last.trace[j].status = "MalformedEpochDescriptor"
      ELSE /\ last.trace[j].status = "run"
           /\ last.trace[j].post.nb_vehicules = CountOf(last.trace[j].line)
           /\ (CountOf(last.trace[j].line) \in 1..SvPerLine =>
                 last.trace[j].post.state = "Body")

\* N of the constellation of the satellite the descriptor names at
\* vehicule_ptr, -1 when the descriptor names none there
CurrentNbObs ==
  LET cv == CurrentVehicule(Self, ObsHeader)
  IN IF cv.res = "Ok" THEN NbObs(ObsHeader, cv.sv) ELSE -1

\* C7: in every state where the FSM is in Body, the state an error left
\* and the state after a conclusion by the overflow guard included,
\* 0 <= obs_ptr <= N(constellation of the satellite at vehicule_ptr)
C7_ObsPtrRange ==
  (state = "Body" /\ last.kind # "Panic" /\ CurrentNbObs >= 0) =>
    (0 <= obs_ptr /\ obs_ptr <= CurrentNbObs)

\* C8: in every state where the FSM is in Body, 0 <= vehicule_ptr <
\* nb_vehicules; a conclusion of satellite that makes vehicule_ptr reach
\* nb_vehicules concludes the epoch in the same step: the state is
\* EpochDescriptor again and vehicule_ptr is 0
C8_VehiculePtrRange ==
  /\ state = "Body" => (0 <= vehicule_ptr /\ vehicule_ptr < nb_vehicules)
  /\ \A t \in Lines :
       /\ t.post.state = "Body" =>
            (0 <= t.post.vehicule_ptr
               /\ t.post.vehicule_ptr < t.post.nb_vehicules)
       /\ \A e \in Events(t) :
            e.kind = "conclude" =>
              IF e.pre.vehicule_ptr + 1 = e.pre.nb_vehicules
              THEN /\ e.post.state = "EpochDescriptor"
                   /\ e.post.vehicule_ptr = 0
              ELSE /\ e.post.state = "Body"
                   /\ e.post.vehicule_ptr = e.pre.vehicule_ptr + 1
                   /\ e.post.vehicule_ptr < e.post.nb_vehicules

\* C9: flags_descriptor gains exactly two characters per observable of the
\* current satellite, however the observable is handled; at every
\* conclusion of satellite the flag block is 2.N(constellation) characters
\* long before the right-trim, and in Body len(flags_descriptor) =
\* 2.obs_ptr
C9_FlagBlockLength ==
  /\ (state = "Body" /\ last.kind # "Panic") =>
       Len(flags_descriptor) = 2 * obs_ptr
  /\ \A t \in Lines :
       \A e \in Events(t) :
         e.kind = "conclude" => e.pre.nflags = 2 * e.idx

\* a forced reinit is scheduled for index i of satellite sv
Scheduled(forced, sv, i) == sv \in DOMAIN forced /\ VecContains(forced[sv], i)

\* C10: for every forced reinit scheduled for (s, i), the next sample of s
\* at index i that parses is emitted as a seed 3&<x> and removes the marker:
\* after it forced_init[s] no longer contains i, whether a kernel of (s, i)
\* existed or not and however many dropouts came before
C10_ReinitOnce ==
  \A t \in Lines :
    \A e \in Events(t) :
      (e.kind \in {"init", "reinit", "delta"}
         /\ Scheduled(e.pre.forced_init, e.sv, e.idx)) =>
        /\ e.kind \in {"init", "reinit"}
        /\ SubSeq(e.txt, 1, 2) = <<"3", "&">>
        /\ ~Scheduled(e.post.forced_init, e.sv, e.idx)

\* C11: forced_init is a set per satellite: in every state forced_init[s]
\* holds each observable index at most once, whatever dropouts (unparsable
\* fields, early blank lines, omissions at the overflow guard) were met
C11_ForcedInitSet ==
  last.kind # "Panic" =>
    \A sv \in DOMAIN forced_init :
      \A i, j \in DOMAIN forced_init[sv] :
        i # j => forced_init[sv][i] # forced_init[sv][j]

\* a pure integer: digits, a minus sign before them at most
IsInteger(s) ==
  /\ s # <<>>
  /\ \/ AllDigits(s)
     \/ s[1] = "-" /\ Len(s) > 1 /\ AllDigits(Tail(s))

\* the number an integer text holds
IntOf(s) == IF s[1] = "-" THEN 0 - DigitsVal(Tail(s)) ELSE DigitsVal(s)

\* a seed: the order 3, an ampersand, an integer
IsSeed(s) ==
  Len(s) > 2 /\ SubSeq(s, 1, 2) = <<"3", "&">> /\ IsInteger(SubSeq(s, 3, Len(s)))

\* the kernels of (sv, i) exist in the registry
Known(sd, sv, i) == sv \in DOMAIN sd /\ i \in DOMAIN sd[sv]

\* the events that append a numeric token
Samples(t) == {e \in Events(t) : e.kind \in {"init", "reinit", "delta"}}

\* what a numeric token holds before its last character
Body(e) == SubSeq(e.txt, 1, Len(e.txt) - 1)

NbObsLine(line) == DivCeil(Len(line), ObsSlot)

\* the satellite the call found current, and whether its first line, met in
\* Body, is a line of observables of that satellite
FirstVehicule == CurrentVehicule(last.pre, last.header)

FirstIsBody ==
  /\ last.kind # "None"
  /\ last.header.rinex_type = "ObservationData"
  /\ last.content # <<>>
  /\ last.pre.state = "Body"
  /\ Trim(last.content[1]) # <<>>
  /\ ~IsComment(last.content[1])
  /\ FirstVehicule.res = "Ok"
  /\ FirstVehicule.sv.constellation \in DOMAIN last.header.codes

\* C13: a body line that carries more observables than the constellation of
\* the current satellite declares (and that cannot be read as the descriptor
\* of a next epoch) makes compress fail with MalformedEpochBody, whatever
\* obs_ptr is and whichever place the satellite has in the epoch
C13_MalformedEpochBody ==
  (FirstIsBody
     /\ CountOf(last.content[1]) < 0
     /\ NbObsLine(last.content[1]) > NbObs(last.header, FirstVehicule.sv)) =>
    last.kind = "MalformedEpochBody"

\* C14: in Body, whenever the satellite field at offset 32 + 3 * vehicule_ptr
\* of the stored descriptor cannot be read or parsed (it is blank, it is no
\* satellite, or the descriptor ends before it because the count announces
\* more satellites than are listed), compress returns
\* VehiculeIdentificationError for the body line
C14_VehiculeIdentification ==
  (/\ last.kind # "None"
   /\ last.header.rinex_type = "ObservationData"
   /\ last.content # <<>>
   /\ last.pre.state = "Body"
   /\ ~IsComment(last.content[1])
   /\ FirstVehicule.res # "Ok") =>
    last.kind = "VehiculeIdentificationError"

\* obs_ptr once the field of the k-th event of a line is done with: what the
\* next event finds, or what the line leaves
ObsPtrAfter(t, k) ==
  IF k < Len(t.ev) THEN t.ev[k + 1].pre.obs_ptr ELSE t.post.obs_ptr

\* C15: an observable field whose data fails to parse is never an error:
\* compress appends exactly one space to the result and two spaces to
\* flags_descriptor, schedules a forced re-initialisation for the satellite
\* of the line and obs_ptr, leaves every kernel as it was, moves obs_ptr on
\* by one and goes on (the failures that can follow are the overflow of
\* obs_ptr past the observables of the satellite and the cut of a last
\* field of less than 14 characters)
C15_ParseFailureOmits ==
  \A t \in Lines :
    \A k \in DOMAIN t.ev :
      t.ev[k].kind = "omit" =>
        /\ t.ev[k].txt = <<" ">>
        /\ t.ev[k].post.nflags = t.ev[k].pre.nflags + 2
        /\ t.ev[k].idx = t.ev[k].pre.obs_ptr
        /\ t.ev[k].post.forced_init =
             ScheduleInit(t.ev[k].pre.forced_init, t.ev[k].sv, t.ev[k].idx)
        /\ t.ev[k].post.sv_diff = t.ev[k].pre.sv_diff
        /\ ObsPtrAfter(t, k) = t.ev[k].pre.obs_ptr + 1
        /\ \/ t.status = "run"
           \/ /\ t.status = "MalformedEpochBody"
              /\ t.post.obs_ptr > NbObs(last.header, t.ev[k].sv)
           \/ /\ t.status = "Panic"
              /\ Len(t.line) % ObsField \in 1..(ObsData - 1)

\* an unparsable field of a satellite whose kernels exist was met, and the
\* call returned Ok
C15_Witness ==
  /\ last.kind = "Ok"
  /\ \E t \in Lines :
       /\ t.line = LineBad
       /\ \E e \in Events(t) :
            e.kind = "omit" /\ Known(e.pre.sv_diff, e.sv, e.idx)

\* the (satellite, index) pairs that have kernels
Keys(sd) == UNION {{<<sv, i>> : i \in DOMAIN sd[sv]} : sv \in DOMAIN sd}

\* the pairs whose kernels a line of the last call created
Created(t) == {<<e.sv, e.idx>> : e \in {x \in Events(t) : x.kind = "init"}}

\* C16: the kernel triple of a (satellite, index) is created atomically:
\* wherever sv_diff[s][i] exists its numeric kernel was initialised at order
\* 3 and holds samples, and both flag kernels are seeded; the sample that
\* creates it is the first parsed one of (s, i), the kernel then holds that
\* sample alone and its token is the seed of it; an entry is created by
\* nothing else and never removed
C16_KernelTriples ==
  /\ \A k \in Keys(sv_diff) :
       /\ sv_diff[k[1]][k[2]].nd.ok
       /\ sv_diff[k[1]][k[2]].nd.order = InitOrder
       /\ Len(sv_diff[k[1]][k[2]].nd.hist) >= 1
       /\ sv_diff[k[1]][k[2]].lli.seeded
       /\ sv_diff[k[1]][k[2]].ssi.seeded
  /\ Keys(last.pre.sv_diff) \subseteq Keys(sv_diff)
  /\ Keys(sv_diff) \ Keys(last.pre.sv_diff) \subseteq UNION {Created(t) : t \in Lines}
  /\ \A t \in Lines :
       \A e \in Events(t) :
         /\ Keys(e.pre.sv_diff) \subseteq Keys(e.post.sv_diff)
         /\ e.kind # "init" => Keys(e.post.sv_diff) = Keys(e.pre.sv_diff)
         /\ e.kind = "init" =>
              /\ ~Known(e.pre.sv_diff, e.sv, e.idx)
              /\ Keys(e.post.sv_diff) = Keys(e.pre.sv_diff) \cup {<<e.sv, e.idx>>}
              /\ IsSeed(Body(e))
              /\ e.post.sv_diff[e.sv][e.idx].nd.hist =
                   <<IntOf(SubSeq(Body(e), 3, Len(Body(e))))>>
              /\ e.post.sv_diff[e.sv][e.idx].lli.seeded
              /\ e.post.sv_diff[e.sv][e.idx].ssi.seeded

\* the kernels of a second observable of a satellite were created, those of
\* its first being there
C16_Witness ==
  last.kind = "Ok" /\ \E t \in Lines :
    \E e \in Events(t) :
      /\ e.kind = "init"
      /\ e.sv \in DOMAIN e.pre.sv_diff
      /\ Cardinality(Keys(sv_diff)) >= 2

\* the event is a numeric token of (sv, i)
TokenOf(e, sv, i) ==
  e.kind \in {"init", "reinit", "delta"} /\ e.sv = sv /\ e.idx = i

\* C17: when the trailing observable i of satellite s was omitted by a
\* truncated line, which the overflow guard finds on the line that follows,
\* one space is emitted for it, the re-initialisation of (s, i) is pending,
\* and the line that follows, not being of s, brings no token of (s, i) and
\* leaves the re-initialisation pending: it waits for the next sample of s
\* itself at index i
C17_TruncatedLine ==
  \A t \in Lines :
    \A k \in DOMAIN t.ev :
      t.ev[k].kind = "omit_final" =>
        /\ t.ev[k].txt = <<" ">>
        /\ Scheduled(t.ev[k].post.forced_init, t.ev[k].sv, t.ev[k].idx)
        /\ \A j \in DOMAIN t.ev :
             j > k => ~TokenOf(t.ev[j], t.ev[k].sv, t.ev[k].idx)
        /\ Scheduled(t.post.forced_init, t.ev[k].sv, t.ev[k].idx)

\* a sample of an observable that has its kernels and no re-initialisation
\* pending: the satellite was seen before and did not drop out since
Steady(e) ==
  /\ e.kind \in {"init", "reinit", "delta"}
  /\ Known(e.pre.sv_diff, e.sv, e.idx)
  /\ ~Scheduled(e.pre.forced_init, e.sv, e.idx)

\* the samples the kernel of the event held before it, since it was seeded
Seen(e) == Len(e.pre.sv_diff[e.sv][e.idx].nd.hist)

NoWs(s) == Flatten([i \in 1..Len(s) |-> IF IsWs(s[i]) THEN <<>> ELSE <<s[i]>>])

\* a content is one epoch of a satellite of two observables: its descriptor
\* and a line of two observables
OneEpoch(content) ==
  /\ Len(content) = 2
  /\ content[1] = LineG
  /\ content[2] \in {LineTwo, LineFlagsFirst, LineFlagsSecond}

\* the contents of one epoch
Epochs == {c \in Contents(FlagLines, MaxContent) : OneEpoch(c)}

\* what compress returns for a content from the state the last call found
Other(content) == Compress(last.pre, last.header, content, wrapping)

\* C19: round trip: the compressed stream tells the inputs apart, as a
\* decompressor that gives back I modulo whitespace needs: two epochs that
\* compress, from the same compressor state, to the same text are the same
\* modulo whitespace, the position of every flag included
C19_RoundTrip ==
  (/\ last.kind = "Ok"
   /\ last.header.rinex_type = "ObservationData"
   /\ last.pre.state = "EpochDescriptor"
   /\ last.pre.epoch_ptr = 0
   /\ OneEpoch(last.content)) =>
    \A c \in Epochs :
      (Other(c).kind = "Ok" /\ Other(c).out = last.out) =>
        NoWs(Flatten(c)) = NoWs(Flatten(last.content))

\* the lines a count announces for its descriptor block
NbLines(line) == DivCeil(CountOf(line), SvPerLine)

\* C20: a first descriptor line met in EpochDescriptor with epoch_ptr = 0
\* whose count K is accepted, K = 0 included, never leaves epoch_ptr above
\* ceil(K / 12), and once epoch_ptr is ceil(K / 12) the block is complete:
\* the descriptor was emitted, obs_ptr and vehicule_ptr are 0,
\* flags_descriptor is empty and the FSM is in Body
C20_DescriptorBlock ==
  \A t \in Lines :
    (/\ t.pre.state = "EpochDescriptor"
     /\ t.pre.epoch_ptr = 0
     /\ t.status = "run"
     /\ ~IsComment(t.line)
     /\ CountOf(t.line) >= 0) =>
      /\ t.post.epoch_ptr <= NbLines(t.line)
      /\ t.post.epoch_ptr = NbLines(t.line) =>
           /\ t.post.state = "Body"
           /\ t.post.obs_ptr = 0
           /\ t.post.vehicule_ptr = 0
           /\ t.post.flags_descriptor = <<>>
           /\ \E e \in Events(t) : e.kind \in {"first", "diff"}

\* the satellite a line of the last call found current
VehiculeAt(t) == CurrentVehicule(t.pre, last.header)

\* the line is met in Body as a line of observables of a satellite the
\* header knows
BodyOf(t) ==
  /\ t.pre.state = "Body"
  /\ ~IsComment(t.line)
  /\ ~(Trim(t.line) = <<>> /\ t.pre.obs_ptr > 0)
  /\ VehiculeAt(t).res = "Ok"
  /\ VehiculeAt(t).sv.constellation \in DOMAIN last.header.codes

\* the observables of the satellite of the line, and those it still lacks
NbObsAt(t) == NbObs(last.header, VehiculeAt(t).sv)

LackingAt(t) ==
  IF NbObsAt(t) > t.pre.obs_ptr THEN NbObsAt(t) - t.pre.obs_ptr ELSE 0

\* the overflow guard fires on the line
GuardFires(t) ==
  BodyOf(t) /\ t.pre.obs_ptr + NbObsLine(t.line) > NbObsAt(t)

\* C21: overflow guard: in Body, when obs_ptr + ceil(len(line) / 17) > N for
\* the current satellite, the line first gets N - obs_ptr spaces appended,
\* one per missing observable, each with a forced re-initialisation
\* scheduled for its index obs_ptr..N-1 of that satellite, and then the
\* satellite concluded: its flag block right-trimmed and a newline are
\* appended, flags_descriptor is empty, obs_ptr is 0 and vehicule_ptr has
\* moved on (to 0 when the epoch is concluded with it); this comes before
\* anything of the line is encoded
C21_OverflowGuard ==
  \A t \in Lines :
    GuardFires(t) =>
      /\ Len(t.ev) >= LackingAt(t) + 1
      /\ \A j \in 1..LackingAt(t) :
           /\ t.ev[j].kind = "omit_final"
           /\ t.ev[j].sv = VehiculeAt(t).sv
           /\ t.ev[j].idx = t.pre.obs_ptr + j - 1
           /\ t.ev[j].txt = <<" ">>
           /\ t.ev[j].post.forced_init =
                ScheduleInit(t.ev[j].pre.forced_init, t.ev[j].sv, t.ev[j].idx)
      /\ t.ev[LackingAt(t) + 1].kind = "conclude"
      /\ t.ev[LackingAt(t) + 1].post.obs_ptr = 0
      /\ t.ev[LackingAt(t) + 1].post.nflags = 0
      /\ IF t.pre.vehicule_ptr + 1 = t.pre.nb_vehicules
         THEN /\ t.ev[LackingAt(t) + 1].post.vehicule_ptr = 0
              /\ t.ev[LackingAt(t) + 1].post.state = "EpochDescriptor"
         ELSE t.ev[LackingAt(t) + 1].post.vehicule_ptr = t.pre.vehicule_ptr + 1
      /\ Len(t.out) >= LackingAt(t) + Len(TrimEnd(t.pre.flags_descriptor)) + 1
      /\ SubSeq(t.out, 1,
                LackingAt(t) + Len(TrimEnd(t.pre.flags_descriptor)) + 1) =
           Rep(" ", LackingAt(t)) \o TrimEnd(t.pre.flags_descriptor)
             \o <<"\n">>

\* the guard fired on the line that follows a satellite line cut short: its
\* second observable was made up for, and the flags of its first are flushed
C21_Witness ==
  \E t \in Lines :
    /\ GuardFires(t)
    /\ t.pre.obs_ptr = 1
    /\ LackingAt(t) = 1
    /\ TrimEnd(t.pre.flags_descriptor) # <<>>

\* the overflow guard concluded the epoch with the satellite and took the
\* line, whose count it accepted, for the descriptor of the next epoch
Rewound(t) ==
  /\ GuardFires(t)
  /\ t.pre.vehicule_ptr + 1 = t.pre.nb_vehicules
  /\ t.status = "run"

\* the line received in EpochDescriptor with epoch_ptr = 0 by the compressor
\* the conclusion of the epoch left
AsDescriptor(t) ==
  DescriptorLine([self |-> [t.post EXCEPT !.epoch_ptr = 0,
                                          !.epoch_descriptor = <<>>],
                  result |-> <<>>, status |-> "run", ev |-> <<>>],
                 t.line, wrapping)

\* what the guard appended before it concluded the epoch
GuardOut(t) ==
  Rep(" ", LackingAt(t)) \o TrimEnd(t.pre.flags_descriptor) \o <<"\n">>

\* C22: when the overflow guard concludes the last satellite of the epoch,
\* the line is treated as the first line of the descriptor of the next
\* epoch: the compressor is left as if the line had been received in
\* EpochDescriptor with epoch_ptr = 0 (same K, same completion of the
\* descriptor, same descriptor output, same entry into Body), for every K,
\* K <= 12 included
C22_RewindAsDescriptor ==
  \A t \in Lines :
    Rewound(t) =>
      /\ t.post = AsDescriptor(t).self
      /\ t.out = GuardOut(t) \o AsDescriptor(t).result

\* a blank line met in Body while a satellite the header knows is in
\* progress, obs_ptr being within its observables
EarlyBlank(t) ==
  /\ t.pre.state = "Body"
  /\ Trim(t.line) = <<>>
  /\ t.pre.obs_ptr > 0
  /\ VehiculeAt(t).res = "Ok"
  /\ VehiculeAt(t).sv.constellation \in DOMAIN last.header.codes
  /\ t.pre.obs_ptr < NbObsAt(t)

\* nb_missing
NbMissing(t) == Min2(ObsPerLine, NbObsAt(t) - t.pre.obs_ptr)

\* C23: early blank line: a blank line received in Body with obs_ptr > 0
\* makes nb_missing = min(5, N - obs_ptr) observables omitted: a forced
\* re-initialisation is scheduled for each index obs_ptr..obs_ptr +
\* nb_missing - 1 and two spaces per missing observable go to
\* flags_descriptor, obs_ptr advances by nb_missing and the satellite is
\* concluded when it reaches N, and one space per missing observable is
\* appended to the output
C23_EarlyBlankLine ==
  \A t \in Lines :
    EarlyBlank(t) =>
      /\ t.status = "run"
      /\ Len(t.ev) >= NbMissing(t)
      /\ \A j \in 1..NbMissing(t) :
           /\ t.ev[j].kind = "omit_early"
           /\ t.ev[j].idx = t.pre.obs_ptr + j - 1
           /\ t.ev[j].post.nflags = t.ev[j].pre.nflags + 2
           /\ t.ev[j].post.forced_init =
                ScheduleInit(t.ev[j].pre.forced_init, VehiculeAt(t).sv,
                             t.ev[j].idx)
      /\ IF t.pre.obs_ptr + NbMissing(t) = NbObsAt(t)
         THEN /\ t.post.obs_ptr = 0
              /\ t.post.flags_descriptor = <<>>
              /\ t.ev[Len(t.ev)].kind = "conclude"
         ELSE t.post.obs_ptr = t.pre.obs_ptr + NbMissing(t)
      /\ Len(t.out) >= NbMissing(t)
      /\ SubSeq(t.out, 1, NbMissing(t)) = Rep(" ", NbMissing(t))

\* what an event appended to the result: its text, and the newline that
\* ends the flag block of a conclusion
OutOf(e) == IF e.kind = "conclude" THEN e.txt \o <<"\n">> ELSE e.txt

\* the fields no conclusion touches
Kept(x) == <<x.sv_diff, x.forced_init, x.epoch_diff, x.clock_diff,
             x.first_epoch, x.nb_vehicules>>

\* C24: the conclusion of a satellite appends the right-trimmed
\* flags_descriptor and a newline to the output, clears flags_descriptor,
\* sets obs_ptr to 0 and moves vehicule_ptr on by one; when vehicule_ptr
\* reaches nb_vehicules the epoch is concluded: epoch_ptr and vehicule_ptr
\* are 0, epoch_descriptor is empty and the state is EpochDescriptor; both
\* leave sv_diff, forced_init, epoch_diff, clock_diff and first_epoch as
\* they were
C24_ConclusionFrame ==
  \A t \in Lines :
    /\ t.out = Flatten([k \in DOMAIN t.ev |-> OutOf(t.ev[k])])
    /\ \A e \in Events(t) :
         e.kind = "conclude" =>
           /\ e.txt = TrimEnd(e.pre.flags_descriptor)
           /\ e.post.flags_descriptor = <<>>
           /\ e.post.obs_ptr = 0
           /\ Kept(e.post) = Kept(e.pre)
           /\ IF e.pre.vehicule_ptr + 1 = e.pre.nb_vehicules
              THEN /\ e.post.vehicule_ptr = 0
                   /\ e.post.epoch_ptr = 0
                   /\ e.post.epoch_descriptor = <<>>
                   /\ e.post.state = "EpochDescriptor"
              ELSE /\ e.post.vehicule_ptr = e.pre.vehicule_ptr + 1
                   /\ e.post.epoch_ptr = e.pre.epoch_ptr
                   /\ e.post.epoch_descriptor = e.pre.epoch_descriptor
                   /\ e.post.state = e.pre.state

\* a satellite with flags was concluded and the epoch went on, and a
\* satellite was concluded with its epoch
C24_Witness ==
  /\ \E t \in Lines :
       \E e \in Events(t) :
         /\ e.kind = "conclude"
         /\ e.txt # <<>>
         /\ e.post.state = "Body"
         /\ e.post.vehicule_ptr = 1
  /\ \E t \in Lines :
       \E e \in Events(t) :
         /\ e.kind = "conclude"
         /\ e.pre.state = "Body"
         /\ e.post.state = "EpochDescriptor"
         /\ e.pre.epoch_descriptor # <<>>

\* the event encodes an observable field: a sample or an unparsable field
FieldOf(e) == e.kind \in {"init", "reinit", "delta", "omit"}

\* C25: every observable field of a body line is encoded under the satellite
\* named at the current vehicule_ptr in the stored descriptor at the moment
\* the field is encoded (its kernels, its pending list, its count N); after
\* the overflow guard concluded a satellite and not the epoch, the fields of
\* the line are encoded under the next satellite, not the one concluded
C25_CurrentSatellite ==
  \A t \in Lines :
    \A e \in Events(t) :
      FieldOf(e) =>
        /\ CurrentVehicule(e.pre, last.header).res = "Ok"
        /\ CurrentVehicule(e.pre, last.header).sv = e.sv

\* C26: for every non-blank body line that reaches the field loop, whatever
\* its length, each of the ceil(len(line) / 17) fields cut off the line has
\* 14 characters at least, so that the split of a field in data and flags
\* never fails: compress does not abort outside its typed errors
C26_FieldSplit ==
  \A t \in Lines :
    (BodyOf(t) /\ Trim(t.line) # <<>>) => t.status # "Panic"

\* what the last call had appended to its result before its i-th line
OutBefore(i) == Flatten([k \in 1..(i - 1) |-> last.trace[k].out])

\* C27: a comment line is always emitted as a whole output line of its own:
\* when it is appended, the output accumulated so far is empty or ends with
\* a newline; a comment received while a satellite is in progress, its
\* tokens emitted and its flag block not yet, does not get inside the output
\* line of that satellite
C27_CommentOwnLine ==
  \A i \in DOMAIN last.trace :
    IsComment(last.trace[i].line) =>
      \/ OutBefore(i) = <<>>
      \/ OutBefore(i)[Len(OutBefore(i))] = "\n"

\* C28: in every state, the state a call that returned an error left
\* included, every observable index that is a key of sv_diff[s] or is held
\* by forced_init[s] is smaller than N(constellation(s)), the number of
\* observables the header declares for the constellation of s
C28_IndexRange ==
  last.kind # "Panic" =>
    /\ \A k \in Keys(sv_diff) : k[2] < NbObs(ObsHeader, k[1])
    /\ \A sv \in DOMAIN forced_init :
         \A j \in DOMAIN forced_init[sv] :
           forced_init[sv][j] < NbObs(ObsHeader, sv)

====
